---- MODULE Spec2Model ----
(***************************************************************************)
(* Model of extract_unique_values.py: the command-line front end (main),   *)
(* the filter parser and applier, the unique-value extraction and          *)
(* save_output.                                                            *)
(*                                                                         *)
(* Strings are sequences of one-character strings (<<"a","b">> is "ab"),   *)
(* so that trimming, splitting, regular-expression matching and the        *)
(* lexicographic order of the code are computed, not assumed.  A null cell *)
(* (Python None, polars null) is the value None.                           *)
(***************************************************************************)
EXTENDS FiniteSets, Integers, Sequences, TLC

(* ---------------- bounds of the model ---------------- *)
MaxRows == 2
MaxFilters == 2
MaxExprLen == 4

(* ---------------- strings ---------------- *)
None == <<"<null>">>

\* code points of the characters the model uses (order of str.__lt__ and of
\* the polars sort of a String column)
Ord(c) ==
  CASE c = "\t" -> 9 [] c = "\n" -> 10 [] c = "\f" -> 12 [] c = "\r" -> 13
    [] c = " " -> 32 [] c = "!" -> 33 [] c = "+" -> 43 [] c = "," -> 44
    [] c = "-" -> 45 [] c = "." -> 46 [] c = "_" -> 95
    [] c = "0" -> 48 [] c = "1" -> 49 [] c = "2" -> 50 [] c = "3" -> 51
    [] c = "4" -> 52 [] c = "5" -> 53 [] c = "6" -> 54 [] c = "7" -> 55
    [] c = "8" -> 56 [] c = "9" -> 57
    [] c = ";" -> 59 [] c = "<" -> 60 [] c = "=" -> 61 [] c = ">" -> 62
    [] c = "a" -> 97 [] c = "b" -> 98 [] c = "c" -> 99 [] c = "d" -> 100
    [] c = "e" -> 101 [] c = "i" -> 105 [] c = "n" -> 110 [] c = "p" -> 112
    [] c = "r" -> 114 [] c = "s" -> 115 [] c = "t" -> 116 [] c = "u" -> 117
    [] c = "v" -> 118 [] c = "|" -> 124 [] c = "~" -> 126
    [] OTHER -> 127

\* whitespace among the characters of the model: blank, tab, line feed, form
\* feed, carriage return
IsSpace(c) == c \in {" ", "\t", "\n", "\f", "\r"}

IsDigit(c) == c \in {"0", "1", "2", "3", "4", "5", "6", "7", "8", "9"}

Drop(s, n) == SubSeq(s, n + 1, Len(s))

Take(s, n) == SubSeq(s, 1, n)

RECURSIVE LStrip(_)
LStrip(s) == IF s # <<>> /\ IsSpace(Head(s)) THEN LStrip(Tail(s)) ELSE s

RECURSIVE RStrip(_)
RStrip(s) ==
  IF s # <<>> /\ IsSpace(s[Len(s)]) THEN RStrip(Take(s, Len(s) - 1)) ELSE s

\* str.strip() and Expr.str.strip_chars() with no argument
Strip(s) == RStrip(LStrip(s))

StartsWith(s, p) == Len(s) >= Len(p) /\ Take(s, Len(p)) = p

\* str.split(sep) and Expr.str.split(sep) for a non-empty separator
RECURSIVE Split(_, _)
Split(s, sep) ==
  IF \E i \in 1..Len(s) : StartsWith(Drop(s, i - 1), sep)
    THEN LET i == CHOOSE j \in 1..Len(s) :
                     /\ StartsWith(Drop(s, j - 1), sep)
                     /\ \A k \in 1..(j - 1) : ~StartsWith(Drop(s, k - 1), sep)
         IN <<Take(s, i - 1)>> \o Split(Drop(s, i - 1 + Len(sep)), sep)
    ELSE <<s>>

\* sep.join(parts)
RECURSIVE Join(_, _)
Join(parts, sep) ==
  IF parts = <<>> THEN <<>>
  ELSE IF Len(parts) = 1 THEN parts[1]
  ELSE parts[1] \o sep \o Join(Tail(parts), sep)

\* substring test (str.contains of an escaped literal)
Contains(s, p) == \E i \in 0..Len(s) : StartsWith(Drop(s, i), p)

\* lexicographic order on code points
RECURSIVE StrLess(_, _)
StrLess(a, b) ==
  IF b = <<>> THEN FALSE
  ELSE IF a = <<>> THEN TRUE
  ELSE IF Ord(Head(a)) # Ord(Head(b)) THEN Ord(Head(a)) < Ord(Head(b))
  ELSE StrLess(Tail(a), Tail(b))

StrLeq(a, b) == a = b \/ StrLess(a, b)

(* ---------------- Python values and exceptions ---------------- *)
\* the result of a call: exc = "" when it returns val, else the exception class
Ok(v) == [exc |-> "", val |-> v]

Raise(e) == [exc |-> e, val |-> None]

\* Python str values are character sequences; these are the literals of the code
single == <<"s", "i", "n", "g", "l", "e">>

multi == <<"m", "u", "l", "t", "i">>

csv == <<"c", "s", "v">>

json == <<"j", "s", "o", "n">>

yaml == <<"y", "a", "m", "l">>

parquet == <<"p", "a", "r", "q", "u", "e", "t">>

METADATA == <<"M", "E", "T", "A", "D", "A", "T", "A">>

meta_key == <<"m", "e", "t", "a">>

(* ---------------- Configuration ---------------- *)
\* cfg.filters is declared a list but main also passes a bool: the value
\* carries its Python type
PyList(l) == [type |-> "list", items |-> l, truth |-> l # <<>>]

PyBool(b) == [type |-> "bool", items |-> <<>>, truth |-> b]

PyNone == [type |-> "NoneType", items |-> <<>>, truth |-> FALSE]

\* the fields of the dataclass in declaration order
FieldNames ==
  <<"input_file", "output_file", "unique_field", "separator", "column_name",
    "row_format", "output_format", "delimiter", "delimiter_regex", "filters",
    "drop_na", "dry_run">>

RequiredFields == {"input_file", "output_file", "unique_field"}

FieldDefaults ==
  [separator |-> <<";">>, column_name |-> None, row_format |-> single,
   output_format |-> csv, delimiter |-> <<",">>, delimiter_regex |-> None,
   filters |-> PyNone, drop_na |-> FALSE, dry_run |-> FALSE]

\* __post_init__
post_init(self) ==
  LET f == IF self.filters.truth THEN self.filters ELSE PyList(<<>>)
      c == IF self.column_name = None THEN self.unique_field ELSE self.column_name
  IN [self EXCEPT !.filters = f, !.column_name = c]

\* ExtractorConfig(**kw): kw maps field names to values
ExtractorConfig(kw) ==
  IF ~(DOMAIN kw \subseteq {FieldNames[i] : i \in 1..Len(FieldNames)})
    THEN Raise("TypeError")
  ELSE IF ~(RequiredFields \subseteq DOMAIN kw) THEN Raise("TypeError")
  ELSE Ok(post_init([n \in {FieldNames[i] : i \in 1..Len(FieldNames)} |->
                       IF n \in DOMAIN kw THEN kw[n] ELSE FieldDefaults[n]]))

\* ExtractorConfig(a1, ..., an): the i-th positional argument is bound to the
\* i-th field
Positional(a) ==
  [n \in {FieldNames[i] : i \in 1..Len(a)} |->
     a[CHOOSE i \in 1..Len(a) : FieldNames[i] = n]]

(* ---------------- File I/O ---------------- *)
\* the paths of the model: data files, a directory, a path with nothing at it
DataCsv == <<"d", ".", "c", "s", "v">>

DataUpper == <<"d", ".", "C", "S", "V">>

DataTxt == <<"d", ".", "t", "x", "t">>

DataDir == <<"d", "i", "r">>

Missing == <<"n", "o", ".", "c", "s", "v">>

OutPath == <<"o", ".", "c", "s", "v">>

Exists(path) == path \in {DataCsv, DataUpper, DataTxt, DataDir}

IsFile(path) == path \in {DataCsv, DataUpper, DataTxt}

\* validate_file_path
validate_file_path(path) ==
  IF path = None THEN Raise("TypeError")
  ELSE IF ~Exists(path) THEN Raise("FileNotFoundError")
  ELSE IF ~IsFile(path) THEN Raise("ValueError")
  ELSE Ok(path)

\* str.lower() of one ASCII character
LowerChar(c) ==
  CASE c = "A" -> "a" [] c = "B" -> "b" [] c = "C" -> "c" [] c = "D" -> "d"
    [] c = "E" -> "e" [] c = "F" -> "f" [] c = "G" -> "g" [] c = "H" -> "h"
    [] c = "I" -> "i" [] c = "J" -> "j" [] c = "K" -> "k" [] c = "L" -> "l"
    [] c = "M" -> "m" [] c = "N" -> "n" [] c = "O" -> "o" [] c = "P" -> "p"
    [] c = "Q" -> "q" [] c = "R" -> "r" [] c = "S" -> "s" [] c = "T" -> "t"
    [] c = "U" -> "u" [] c = "V" -> "v" [] c = "W" -> "w" [] c = "X" -> "x"
    [] c = "Y" -> "y" [] c = "Z" -> "z" [] OTHER -> c

\* Path.name, for a path without ".." components: the last component that is
\* neither empty nor "."
RECURSIVE PathName(_)
PathName(path) ==
  IF path = <<>> THEN <<>>
  ELSE IF path[Len(path)] = "/" THEN PathName(Take(path, Len(path) - 1))
  ELSE LET slashes == {i \in 1..Len(path) : path[i] = "/"}
           start == IF slashes = {} THEN 0
                    ELSE CHOOSE i \in slashes : \A k \in slashes : k <= i
       IN IF Drop(path, start) = <<".">> THEN PathName(Take(path, start))
          ELSE Drop(path, start)

\* Path.suffix.lower() (pathlib before Python 3.14): from the last dot of the
\* name, unless that dot is the first or the last character of the name
Suffix(path) ==
  LET name == PathName(path)
      dots == {i \in 1..Len(name) : name[i] = "."}
      last == CHOOSE i \in dots : \A j \in dots : j <= i
  IN IF dots = {} THEN <<>>
     ELSE IF last < 2 \/ last > Len(name) - 1 THEN <<>>
     ELSE [i \in 1..(Len(name) - last + 1) |-> LowerChar(name[last + i - 1])]

\* read_input_file: content is the frame the reader builds from a well-formed
\* file of a supported format
read_input_file(path, content) ==
  IF Suffix(path) \in { <<".">> \o csv, <<".">> \o json, <<".">> \o yaml,
                        <<".", "y", "m", "l">>, <<".">> \o parquet }
    THEN Ok(content)
  ELSE Raise("ValueError")

(* ---------------- Filter Logic ---------------- *)
OPS == << <<">", "=">>, <<"<", "=">>, <<"!", "=">>, <<"=">>, <<">">>, <<"<">>, <<"~">> >>

\* the longest prefix of s the pattern .+ or .* can take: up to the first
\* line feed
RECURSIVE Line(_)
Line(s) ==
  IF s = <<>> \/ Head(s) = "\n" THEN <<>> ELSE <<Head(s)>> \o Line(Tail(s))

\* the ways the pattern (.+?)(>=|<=|!=|=|>|<|~)(.+) can split s: a field of
\* i >= 1 characters with no line feed, the k-th alternative, at least one
\* character other than a line feed after it
ReSplits(s) ==
  {ik \in (1..Len(s)) \X (1..Len(OPS)) :
     /\ StartsWith(Drop(s, ik[1]), OPS[ik[2]])
     /\ \A j \in 1..ik[1] : s[j] # "\n"
     /\ Len(s) - ik[1] - Len(OPS[ik[2]]) >= 1
     /\ s[ik[1] + Len(OPS[ik[2]]) + 1] # "\n"}

\* re.match: the lazy field takes the shortest prefix, the alternation its
\* first alternative that lets the rest of the pattern match, and the greedy
\* last group runs to the end of the line
ReMatch(s) ==
  LET c == ReSplits(s)
      i == CHOOSE n \in {ik[1] : ik \in c} : \A ik \in c : n <= ik[1]
      k == CHOOSE n \in {ik[2] : ik \in {x \in c : x[1] = i}} :
             \A ik \in {x \in c : x[1] = i} : n <= ik[2]
  IN IF c = {} THEN <<>>
     ELSE << <<Take(s, i), OPS[k], Line(Drop(s, i + Len(OPS[k])))>> >>

RECURSIVE StripNonEmpty(_)
StripNonEmpty(parts) ==
  IF parts = <<>> THEN <<>>
  ELSE IF Strip(Head(parts)) # <<>>
    THEN <<Strip(Head(parts))>> \o StripNonEmpty(Tail(parts))
  ELSE StripNonEmpty(Tail(parts))

\* one iteration of the loop of FilterParser.parse: zero or one clause
ParseExpr(expr) ==
  LET m == ReMatch(Strip(expr))
      vals_list == StripNonEmpty(Split(m[1][3], <<",">>))
  IN IF m = <<>> THEN <<>>
     ELSE IF vals_list = <<>> THEN <<>>
     ELSE << [field |-> Strip(m[1][1]), op |-> m[1][2], vals |-> vals_list] >>

RECURSIVE parse(_)
parse(expressions) ==
  IF expressions = <<>> THEN <<>>
  ELSE ParseExpr(Head(expressions)) \o parse(Tail(expressions))

\* digits, with single underscores between digits
IsDigitPart(t) ==
  /\ t # <<>>
  /\ IsDigit(t[1]) /\ IsDigit(t[Len(t)])
  /\ \A i \in 1..Len(t) :
       IsDigit(t[i]) \/ (t[i] = "_" /\ IsDigit(t[i - 1]) /\ IsDigit(t[i + 1]))

\* digits with at most one point, a digit on at least one side of it
IsPointNumber(t) ==
  LET dots == {i \in 1..Len(t) : t[i] = "."}
      d == CHOOSE i \in dots : TRUE
  IN IF dots = {} THEN IsDigitPart(t)
     ELSE /\ Cardinality(dots) = 1
          /\ \/ IsDigitPart(Take(t, d - 1)) /\ Drop(t, d) = <<>>
             \/ Take(t, d - 1) = <<>> /\ IsDigitPart(Drop(t, d))
             \/ IsDigitPart(Take(t, d - 1)) /\ IsDigitPart(Drop(t, d))

StripSign(t) == IF t # <<>> /\ t[1] \in {"+", "-"} THEN Tail(t) ELSE t

\* float(s) succeeds, for s of printable ASCII characters, tabs, line feeds,
\* form feeds and carriage returns: surrounding whitespace and case are
\* ignored, and what is left is an optional sign followed by inf,
\* infinity, nan or a decimal number with an optional exponent
IsFloat(s) ==
  LET u == StripSign(Strip(s))
      t == [i \in 1..Len(u) |-> LowerChar(u[i])]
      es == {i \in 1..Len(t) : t[i] = "e"}
      e == CHOOSE i \in es : TRUE
  IN \/ t \in { <<"i", "n", "f">>, <<"n", "a", "n">>,
                <<"i", "n", "f", "i", "n", "i", "t", "y">> }
     \/ es = {} /\ IsPointNumber(t)
     \/ /\ Cardinality(es) = 1
        /\ IsPointNumber(Take(t, e - 1))
        /\ IsDigitPart(StripSign(Drop(t, e)))

\* col.cast(pl.Utf8).str.strip_chars() of one cell; an Int64 cell is held as
\* its decimal string
CastStrip(cell) == IF cell = None THEN None ELSE Strip(cell)

InVals(v, vals) == \E i \in 1..Len(vals) : vals[i] = v

\* FilterApplier.apply with != as the complement of = over all rows, null
\* cells included
apply_ne_keeps_null(lf, field, op, vals) ==
  IF ~InVals(field, lf.columns) THEN Raise("ValueError")
  ELSE IF op \in { <<">">>, <<"<">>, <<">", "=">>, <<"<", "=">> }
    THEN IF vals = <<>> THEN Raise("IndexError")
         ELSE IF ~IsFloat(vals[1]) THEN Raise("ValueError")
         ELSE Raise("AttributeError")
  ELSE IF op = <<"=">>
    THEN LET Keep(r) == CastStrip(r[field]) # None /\ InVals(CastStrip(r[field]), vals)
         IN Ok([lf EXCEPT !.rows = SelectSeq(lf.rows, Keep)])
  ELSE IF op = <<"!", "=">>
    THEN LET Keep(r) == ~(CastStrip(r[field]) # None /\ InVals(CastStrip(r[field]), vals))
         IN Ok([lf EXCEPT !.rows = SelectSeq(lf.rows, Keep)])
  ELSE IF op = <<"~">>
    THEN LET Keep(r) == /\ CastStrip(r[field]) # None
                        /\ \/ vals = <<>>
                           \/ \E i \in 1..Len(vals) : Contains(CastStrip(r[field]), vals[i])
         IN Ok([lf EXCEPT !.rows = SelectSeq(lf.rows, Keep)])
  ELSE Raise("ValueError")

\* FilterApplier.apply; a data frame is [columns, dtypes, rows] and a lazy
\* frame is modelled by the frame it evaluates to
apply(lf, field, op, vals) ==
  IF ~InVals(field, lf.columns) THEN Raise("ValueError")
  ELSE IF op \in { <<">">>, <<"<">>, <<">", "=">>, <<"<", "=">> }
    \* vals[0] of an empty list raises IndexError
    THEN IF vals = <<>> THEN Raise("IndexError")
         ELSE IF ~IsFloat(vals[1]) THEN Raise("ValueError")
         \* getattr(expr, op) looks up an attribute named ">", "<", ">=" or
         \* "<=" on a polars Expr, which has none
         ELSE Raise("AttributeError")
  ELSE IF op = <<"=">>
    THEN LET Keep(r) == CastStrip(r[field]) # None /\ InVals(CastStrip(r[field]), vals)
         IN Ok([lf EXCEPT !.rows = SelectSeq(lf.rows, Keep)])
  ELSE IF op = <<"!", "=">>
    THEN LET Keep(r) == CastStrip(r[field]) # None /\ ~InVals(CastStrip(r[field]), vals)
         IN Ok([lf EXCEPT !.rows = SelectSeq(lf.rows, Keep)])
  ELSE IF op = <<"~">>
    THEN LET Keep(r) == /\ CastStrip(r[field]) # None
                        /\ \/ vals = <<>>
                           \/ \E i \in 1..Len(vals) : Contains(CastStrip(r[field]), vals[i])
         IN Ok([lf EXCEPT !.rows = SelectSeq(lf.rows, Keep)])
  ELSE Raise("ValueError")

(* ---------------- Processing ---------------- *)
\* Series.unique(): each value once
RECURSIVE Unique(_)
Unique(s) ==
  IF s = <<>> THEN <<>>
  ELSE LET NotLast(v) == v # s[Len(s)]
       IN Unique(SelectSeq(Take(s, Len(s) - 1), NotLast)) \o <<s[Len(s)]>>

\* Series.sort() of non-null strings, ascending
RECURSIVE Sort(_)
Sort(s) ==
  IF s = <<>> THEN <<>>
  ELSE LET i == CHOOSE j \in 1..Len(s) : \A k \in 1..Len(s) : StrLeq(s[j], s[k])
           NotMin(v) == v # s[i]
           IsMin(v) == v = s[i]
       IN SelectSeq(s, IsMin) \o Sort(SelectSeq(s, NotMin))

NotNull(v) == v # None

Column(df, field) == [i \in 1..Len(df.rows) |-> df.rows[i][field]]

\* str.split(sep).explode().str.strip_chars() of a String column
RECURSIVE Explode(_, _)
Explode(col, sep) ==
  IF col = <<>> THEN <<>>
  ELSE (IF Head(col) = None THEN <<None>>
        ELSE LET parts == Split(Head(col), sep)
             IN [i \in 1..Len(parts) |-> Strip(parts[i])])
       \o Explode(Tail(col), sep)

\* process_multi without .unique()
process_multi_no_unique(df, field, sep) ==
  IF df.dtypes[field] # "Utf8" THEN Raise("SchemaError")
  ELSE LET NotNullNotEmpty(v) == v # None /\ v # <<>>
       IN Ok(Sort(SelectSeq(Explode(Column(df, field), sep), NotNullNotEmpty)))

process_multi(df, field, sep) ==
  IF df.dtypes[field] # "Utf8" THEN Raise("SchemaError")
  ELSE LET NotNullNotEmpty(v) == v # None /\ v # <<>>
       IN Ok(Sort(Unique(SelectSeq(Explode(Column(df, field), sep), NotNullNotEmpty))))

\* the SINGLE branch with .unique() ahead of .str.strip_chars()
process_single_unique_first(df, field) ==
  LET col == Unique(Column(df, field))
      stripped == [i \in 1..Len(col) |-> CastStrip(col[i])]
  IN Ok(Sort(SelectSeq(stripped, NotNull)))

process_single(df, field) ==
  LET col == Column(df, field)
      stripped == [i \in 1..Len(col) |-> CastStrip(col[i])]
  IN Ok(Sort(SelectSeq(Unique(stripped), NotNull)))

\* the loop over cfg.filters in extract_unique_values
RECURSIVE ApplyAll(_, _)
ApplyAll(lf, filters) ==
  IF filters = <<>> THEN Ok(lf)
  ELSE LET r == apply(lf, Head(filters).field, Head(filters).op, Head(filters).vals)
       IN IF r.exc # "" THEN r ELSE ApplyAll(r.val, Tail(filters))

\* the drop_na filter removing blank cells as well as null ones
DropNa_blank(lf, cfg) ==
  LET Keep(r) == r[cfg.unique_field] # None /\ Strip(r[cfg.unique_field]) # <<>>
  IN IF cfg.drop_na THEN [lf EXCEPT !.rows = SelectSeq(lf.rows, Keep)] ELSE lf

\* lf.filter(pl.col(cfg.unique_field).is_not_null()) when cfg.drop_na
DropNa(lf, cfg) ==
  LET Keep(r) == r[cfg.unique_field] # None
  IN IF cfg.drop_na THEN [lf EXCEPT !.rows = SelectSeq(lf.rows, Keep)] ELSE lf

\* the loop starting every clause from df.lazy() instead of lf
Filtered_restart(cfg, df) ==
  IF cfg.filters.type # "list" THEN Raise("TypeError")
  ELSE LET items == cfg.filters.items
           r == ApplyAll(df, items)
       IN IF r.exc # "" THEN r
          ELSE IF items = <<>> THEN Ok(DropNa(df, cfg))
          ELSE Ok(DropNa(ApplyAll(df, <<items[Len(items)]>>).val, cfg))

\* the frame extract_unique_values collects after the filters
Filtered(cfg, df) ==
  IF cfg.filters.type # "list" THEN Raise("TypeError")
  ELSE LET r == ApplyAll(df, cfg.filters.items)
       IN IF r.exc # "" THEN r ELSE Ok(DropNa(r.val, cfg))

\* extract_unique_values; content is what the input file holds
extract_unique_values(cfg, content) ==
  LET p == validate_file_path(cfg.input_file)
      rd == read_input_file(p.val, content)
      f == Filtered(cfg, rd.val)
  IN IF p.exc # "" THEN p
     ELSE IF rd.exc # "" THEN rd
     ELSE IF ~InVals(cfg.unique_field, rd.val.columns) THEN Raise("ValueError")
     ELSE IF f.exc # "" THEN f
     ELSE IF cfg.row_format = multi
       THEN process_multi(f.val, cfg.unique_field, cfg.separator)
     ELSE process_single(f.val, cfg.unique_field)

(* ---------------- Output ---------------- *)
\* the meta dict of save_output, without its time stamp
Meta(series, cfg) ==
  [field |-> cfg.unique_field, filters |-> cfg.filters, count |-> Len(series)]

\* a dict literal {"meta": m, column_name: v}: a repeated key keeps the last value
Dict2(m, column_name, v) == (column_name :> v) @@ (meta_key :> m)

\* the frame save_output builds: its columns and its rows, a row mapping each
\* column to a cell
OutputFrame(series, cfg) ==
  LET m == [str |-> Meta(series, cfg)]
      first == IF cfg.row_format = single
                 THEN Dict2(m, cfg.column_name, Join(series, cfg.separator))
               ELSE Dict2(m, cfg.column_name, METADATA)
      items == IF cfg.row_format = single THEN <<>>
               ELSE [i \in 1..Len(series) |->
                       [c \in DOMAIN first |->
                          IF c = cfg.column_name THEN series[i] ELSE None]]
  IN [columns |-> IF cfg.column_name = meta_key THEN <<meta_key>>
                  ELSE <<meta_key, cfg.column_name>>,
      rows |-> <<first>> \o items]

\* save_output: the exception it raises and the file at cfg.output_file after
\* the call (old is the file before it)
save_output(series, cfg, old) ==
  IF cfg.output_file = None THEN [exc |-> "TypeError", file |-> old]
  ELSE IF cfg.dry_run THEN [exc |-> "", file |-> old]
  ELSE IF cfg.output_format \in {csv, json, yaml, parquet}
    THEN [exc |-> "", file |-> [exists |-> TRUE, format |-> cfg.output_format,
                                frame |-> OutputFrame(series, cfg)]]
  ELSE [exc |-> "ValueError", file |-> old]

(* ---------------- Main CLI ---------------- *)
VARIABLES
  argv,         \* the options given on the command line, option name -> value
  config_yaml,  \* the mapping yaml.safe_load returns for the --config file
  content,      \* the frame the reader builds from the input data file
  out_file,     \* the file at the output path
  pc,           \* position in main: "start", "configured", "extracted", "exit"
  cfg,          \* the ExtractorConfig of main
  series,       \* the result of extract_unique_values
  exit_code     \* the argument of sys.exit, -1 while main runs

vars == <<argv, config_yaml, content, out_file, pc, cfg, series, exit_code>>

ConfigPath == <<"c", ".", "y", "m", "l">>

\* the defaults of the argparse parser; an option without default is None
ArgDefaults ==
  [input |-> None, output |-> None, unique_field |-> None, filters |-> <<>>,
   delimiter |-> <<",">>, separator |-> <<";">>, column_name |-> None,
   row_format |-> single, output_format |-> csv, drop_na |-> FALSE,
   dry_run |-> FALSE, config |-> None, print_config_template |-> FALSE]

\* p.parse_args()
parse_args(a) ==
  [n \in DOMAIN ArgDefaults |-> IF n \in DOMAIN a THEN a[n] ELSE ArgDefaults[n]]

\* bool(v) of a string or None
Truth(v) == v # None /\ v # <<>>

\* d[k] = v
SetItem(d, k, v) == (k :> v) @@ d

\* the overrides of the --config branch, in the order of the code
Overrides(args, d0) ==
  LET d1 == IF args.input # None THEN SetItem(d0, "input_file", args.input) ELSE d0
      d2 == IF args.output # None THEN SetItem(d1, "output_file", args.output) ELSE d1
      d3 == IF args.unique_field # None
              THEN SetItem(d2, "unique_field", args.unique_field) ELSE d2
      d4 == IF args.separator # None THEN SetItem(d3, "separator", args.separator) ELSE d3
      d5 == IF args.column_name # None
              THEN SetItem(d4, "column_name", args.column_name) ELSE d4
      d6 == IF args.row_format # None
              THEN SetItem(d5, "row_format", args.row_format) ELSE d5
      d7 == IF args.output_format # None
              THEN SetItem(d6, "output_format", args.output_format) ELSE d6
      d8 == IF args.delimiter # None THEN SetItem(d7, "delimiter", args.delimiter) ELSE d7
      d9 == IF args.filters # <<>>
              THEN SetItem(d8, "filters", PyList(parse(args.filters))) ELSE d8
      d10 == IF args.drop_na THEN SetItem(d9, "drop_na", TRUE) ELSE d9
      d11 == IF args.dry_run THEN SetItem(d10, "dry_run", TRUE) ELSE d10
  IN d11

\* the positional call of the branch without --config
CliArguments(args) ==
  <<args.input, args.output, args.unique_field, args.separator, args.column_name,
    args.row_format, args.output_format, args.delimiter, parse(args.filters),
    PyBool(args.drop_na), args.dry_run>>

Exit(code) ==
  /\ pc' = "exit"
  /\ exit_code' = code

\* main with --print-config-template: the sample is printed and the run ends
\* before any configuration is built
PrintConfigTemplate ==
  /\ pc = "start"
  /\ parse_args(argv).print_config_template
  /\ Exit(0)
  /\ UNCHANGED <<argv, config_yaml, content, out_file, cfg, series>>

\* main up to the construction of cfg, with --config
ConfigFromYaml ==
  /\ pc = "start"
  /\ ~parse_args(argv).print_config_template
  /\ Truth(parse_args(argv).config)
  /\ LET r == ExtractorConfig(Overrides(parse_args(argv), config_yaml))
     IN IF r.exc # ""
          THEN Exit(1) /\ UNCHANGED cfg
          ELSE pc' = "configured" /\ cfg' = r.val /\ UNCHANGED exit_code
  /\ UNCHANGED <<argv, config_yaml, content, out_file, series>>

\* main up to the construction of cfg, without --config
ConfigFromCli ==
  /\ pc = "start"
  /\ ~parse_args(argv).print_config_template
  /\ ~Truth(parse_args(argv).config)
  /\ LET r == ExtractorConfig(Positional(CliArguments(parse_args(argv))))
     IN IF r.exc # ""
          THEN Exit(1) /\ UNCHANGED cfg
          ELSE pc' = "configured" /\ cfg' = r.val /\ UNCHANGED exit_code
  /\ UNCHANGED <<argv, config_yaml, content, out_file, series>>

\* the except clauses around extract_unique_values
ExtractExitCode(exc) ==
  IF exc = "FileNotFoundError" THEN 2
  ELSE IF exc = "ValueError" THEN 3
  ELSE 99

\* main: series = extract_unique_values(cfg)
Extract ==
  /\ pc = "configured"
  /\ LET r == extract_unique_values(cfg, content)
     IN IF r.exc # ""
          THEN Exit(ExtractExitCode(r.exc)) /\ UNCHANGED series
          ELSE pc' = "extracted" /\ series' = r.val /\ UNCHANGED exit_code
  /\ UNCHANGED <<argv, config_yaml, content, out_file, cfg>>

\* main: save_output(series, cfg) and the final sys.exit
Save ==
  /\ pc = "extracted"
  /\ LET r == save_output(series, cfg, out_file)
     IN /\ out_file' = r.file
        /\ Exit(IF r.exc # "" THEN 4 ELSE 0)
  /\ UNCHANGED <<argv, config_yaml, content, cfg, series>>

(* ---------------- inputs of the model ---------------- *)
id == <<"i", "d">>

status == <<"s", "t", "a", "t", "u", "s">>

nofield == <<"n", "o">>

active == <<"a", "c", "t", "i", "v", "e">>

inactive == <<"i", "n">> \o active

Row(i, s) == (id :> i) @@ (status :> s)

Frame(dt, rows) ==
  [columns |-> <<id, status>>, dtypes |-> (id :> dt) @@ (status :> "Utf8"),
   rows |-> rows]

\* the elements of s at the positions in S, in order
RECURSIVE Pick(_, _, _)
Pick(s, S, i) ==
  IF i > Len(s) THEN <<>>
  ELSE (IF i \in S THEN <<s[i]>> ELSE <<>>) \o Pick(s, S, i + 1)

\* all sequences over S of length at most n
RECURSIVE SeqsUpTo(_, _)
SeqsUpTo(S, n) ==
  IF n = 0 THEN {<<>>}
  ELSE LET shorter == SeqsUpTo(S, n - 1)
       IN shorter \cup {Append(q, x) : q \in shorter, x \in S}

\* the table of example scenario 1: (1,active),(2,inactive),(3,active)
Scenario1 == <<Row(<<"1">>, active), Row(<<"2">>, inactive), Row(<<"3">>, active)>>

\* the frames of the runs of main: the rows of scenario 1 in any selection,
\* the id column read as integers or as strings
MainFrames ==
  {Frame(dt, Pick(Scenario1, S, 1)) :
     dt \in {"Int64", "Utf8"}, S \in SUBSET (1..Len(Scenario1))}

\* filter expressions of the command line
Expressions ==
  { status \o <<"=">> \o active,
    <<" ">> \o status \o <<" ", "~", " ">> \o active \o <<" ">>,
    nofield \o <<"=", "1">>,
    id \o <<">", "=", "1", "0", ",", "a", "b", "c">> }

Opt(given, name, value) ==
  IF given THEN name :> value ELSE [x \in {} |-> None]

\* command lines without --config: input, output and unique field are given
ArgvCli ==
  {("input" :> i) @@ ("output" :> OutPath) @@ ("unique_field" :> u)
     @@ Opt(f # <<>>, "filters", f) @@ Opt(rf, "row_format", multi)
     @@ Opt(dn, "drop_na", TRUE) @@ Opt(dr, "dry_run", TRUE) :
     i \in {DataCsv, DataUpper, DataTxt, DataDir, Missing}, u \in {id, nofield},
     f \in SeqsUpTo(Expressions, MaxFilters),
     rf \in BOOLEAN, dn \in BOOLEAN, dr \in BOOLEAN}

\* command lines with --config: every other option is optional
ArgvConfig ==
  {("config" :> ConfigPath) @@ Opt(u, "unique_field", nofield)
     @@ Opt(f # <<>>, "filters", f) @@ Opt(rf, "row_format", multi)
     @@ Opt(dn, "drop_na", TRUE) @@ Opt(dr, "dry_run", TRUE) :
     u \in BOOLEAN, f \in SeqsUpTo(Expressions, MaxFilters),
     rf \in BOOLEAN, dn \in BOOLEAN, dr \in BOOLEAN}

\* command lines with --config "": the empty path is false, so main takes the
\* branch without --config
ArgvEmptyConfig ==
  {("config" :> <<>>)}
    \cup {("config" :> <<>>) @@ ("input" :> DataCsv) @@ ("output" :> OutPath)
             @@ ("unique_field" :> id) @@ Opt(f, "filters", <<status \o <<"=">> \o active>>)
             @@ Opt(dn, "drop_na", TRUE) @@ Opt(dr, "dry_run", TRUE) :
             f \in BOOLEAN, dn \in BOOLEAN, dr \in BOOLEAN}

\* command lines with --print-config-template, alone or with other options
ArgvTemplate ==
  {("print_config_template" :> TRUE) @@ a :
     a \in { [x \in {} |-> None],
             ("config" :> ConfigPath),
             ("input" :> DataCsv) @@ ("output" :> OutPath) @@ ("unique_field" :> id) }}

Clause(f, op, vals) == [field |-> f, op |-> op, vals |-> vals]

YamlBase ==
  ("input_file" :> DataCsv) @@ ("output_file" :> OutPath) @@ ("unique_field" :> id)

\* contents of the --config file
Yamls ==
  { YamlBase,
    ("input_file" :> DataCsv) @@ ("output_file" :> OutPath),
    ("input_file" :> Missing) @@ YamlBase,
    ("separator" :> <<"|">>) @@ ("row_format" :> multi) @@ ("output_format" :> json)
      @@ ("delimiter" :> <<";">>) @@ ("dry_run" :> TRUE) @@ YamlBase,
    ("filters" :> PyList(<<Clause(status, <<"=">>, <<active>>)>>))
      @@ ("drop_na" :> TRUE) @@ YamlBase,
    ("filters" :> PyList(<<Clause(status, <<"~">>, <<active>>),
                           Clause(nofield, <<"=">>, <<active>>)>>)) @@ YamlBase,
    \* a comparison with a value float() accepts although it is no digit string
    ("filters" :> PyList(<<Clause(id, <<">">>, << <<"n", "a", "n">> >>)>>))
      @@ YamlBase,
    \* clauses with an empty value list, which only a config file can hold
    ("filters" :> PyList(<<Clause(status, <<"~">>, <<>>)>>)) @@ YamlBase,
    ("filters" :> PyList(<<Clause(id, <<"<">>, <<>>)>>)) @@ YamlBase }

NoYaml == [x \in {} |-> None]

\* main takes the --config branch
WithConfig ==
  ~parse_args(argv).print_config_template /\ Truth(parse_args(argv).config)

\* nothing at the output path, or a file left by an earlier run
NoFile == [exists |-> FALSE, format |-> None, frame |-> [columns |-> <<>>, rows |-> <<>>]]

OldFile == [exists |-> TRUE, format |-> csv, frame |-> [columns |-> <<>>, rows |-> <<>>]]

NoCfg == [x \in {} |-> None]

Init ==
  /\ argv \in ArgvCli \cup ArgvConfig \cup ArgvEmptyConfig \cup ArgvTemplate
  /\ config_yaml \in (IF WithConfig THEN Yamls ELSE {NoYaml})
  /\ content \in MainFrames
  /\ out_file \in {NoFile, OldFile}
  /\ pc = "start"
  /\ cfg = NoCfg
  /\ series = <<>>
  /\ exit_code = -1

Next == PrintConfigTemplate \/ ConfigFromYaml \/ ConfigFromCli \/ Extract \/ Save

Spec == Init /\ [][Next]_vars

(* ---------------- the pipeline on its own ---------------- *)
\* rows whose unique field is null, blank, differs from another in surrounding
\* blanks only, or packs several values
RichRows ==
  { Row(None, active), Row(<<" ">>, inactive), Row(<<"a">>, active),
    Row(<<" ", "a">>, inactive), Row(<<"b">>, active),
    Row(<<"a", ",", "b">>, active), Row(<<"b", ",", "c">>, inactive),
    Row(<<"c", ";", " ", "a", ";">>, active) }

RichFrames == {Frame("Utf8", rows) : rows \in SeqsUpTo(RichRows, MaxRows)}

Clauses ==
  { Clause(status, <<"=">>, <<active>>),
    Clause(id, <<"!", "=">>, << <<"a">>, <<"c">> >>),
    Clause(id, <<"~">>, << <<"b">> >>),
    Clause(id, <<">", "=">>, << <<"1", "0">>, <<"a", "b", "c">> >>),
    Clause(nofield, <<"=">>, << <<"a">> >>) }

\* configurations main can build with --config; the separator varies where
\* the extraction uses it
Configs ==
  {ExtractorConfig(("filters" :> PyList(f)) @@ ("row_format" :> fmt[1])
                     @@ ("separator" :> fmt[2]) @@ ("drop_na" :> dn)
                     @@ YamlBase).val :
     f \in SeqsUpTo(Clauses, MaxFilters),
     fmt \in {<<single, <<";">> >>, <<multi, <<",">> >>, <<multi, <<";">> >>},
     dn \in BOOLEAN}

NoArgv == [x \in {} |-> None]

InitExtract ==
  /\ argv = NoArgv
  /\ config_yaml = NoYaml
  /\ content \in RichFrames
  /\ out_file = NoFile
  /\ pc = "configured"
  /\ cfg \in Configs
  /\ series = <<>>
  /\ exit_code = -1

NextExtract == Extract \/ Save

SpecExtract == InitExtract /\ [][NextExtract]_vars

(* ---------------- properties ---------------- *)
Elems(q) == {q[i] : i \in 1..Len(q)}

\* main has built cfg
Configured ==
  \/ pc \in {"configured", "extracted"}
  \/ pc = "exit" /\ exit_code # 1 /\ ~parse_args(argv).print_config_template

\* the input file is a regular file of a supported format: the dataset loads
Loaded == validate_file_path(cfg.input_file).exc = ""
            /\ read_input_file(cfg.input_file, content).exc = ""

\* a row satisfies a clause of the =, != or ~ kind, by the meaning of the operator
Satisfies(r, c) ==
  /\ r[c.field] # None
  /\ c.op = <<"=">> => Strip(r[c.field]) \in Elems(c.vals)
  /\ c.op = <<"!", "=">> => Strip(r[c.field]) \notin Elems(c.vals)
  /\ c.op = <<"~">> => \E v \in Elems(c.vals) : Contains(Strip(r[c.field]), v)

\* the values a cell of the unique field contributes in the row format of cfg
ValuesOf(cell) ==
  IF cell = None THEN {}
  ELSE IF cfg.row_format = multi
    THEN {Strip(t) : t \in Elems(Split(cell, cfg.separator))} \ {<<>>}
  ELSE {Strip(cell)}

\* the clauses --filters parses to all name columns and use =, != or ~
CliClausesApplicable ==
  \A c \in Elems(parse(parse_args(argv).filters)) :
    c.field \in Elems(content.columns) /\ c.op \in {<<"=">>, <<"!", "=">>, <<"~">>}

\* C1: without --config, every value extracted comes from a row that satisfies
\* all the clauses the --filters expressions parse to; for scenario 1 the value
\* string written is "1;3"
C1_CliFiltersApplied ==
  (pc = "extracted" /\ ~WithConfig /\ CliClausesApplicable)
    => /\ \A v \in Elems(series) :
            \E r \in Elems(content.rows) :
              /\ v \in ValuesOf(r[cfg.unique_field])
              /\ \A c \in Elems(parse(parse_args(argv).filters)) : Satisfies(r, c)
       /\ (/\ content.rows = Scenario1
           /\ parse_args(argv).filters = <<status \o <<"=">> \o active>>
           /\ cfg.row_format = single)
            => Join(series, cfg.separator) = <<"1", ";", "3">>

DryRunRequested ==
  \/ "dry_run" \in DOMAIN argv
  \/ /\ WithConfig
     /\ "dry_run" \in DOMAIN config_yaml
     /\ config_yaml["dry_run"]

\* C2: when dry-run is requested, on the command line or in the config, no
\* step of the run creates or modifies the file at the output path
C2_DryRunNeverWrites == [][DryRunRequested => out_file' = out_file]_vars

UnknownField ==
  \/ cfg.unique_field \notin Elems(content.columns)
  \/ /\ cfg.filters.type = "list"
     /\ \E c \in Elems(cfg.filters.items) : c.field \notin Elems(content.columns)

\* C3: when the unique field or the field of a clause of cfg.filters is not a
\* column of the loaded dataset, the run ends with the processing error (exit
\* code 3) without reaching save_output, and the output file is untouched
C3_UnknownFieldStops ==
  (pc \in {"extracted", "exit"} /\ Configured /\ Loaded /\ UnknownField)
    => pc = "exit" /\ exit_code = 3 /\ out_file \in {NoFile, OldFile}

IsComparison(c) == c.op \in { <<">">>, <<"<">>, <<">", "=">>, <<"<", "=">> }

\* C4: a run whose first clause is a comparison on a column, with a value list
\* that is not exactly one numeric literal, ends with the invalid-filter-value
\* error (a processing error, exit code 3)
C4_ComparisonNeedsOneNumber ==
  (/\ pc \in {"extracted", "exit"} /\ Configured /\ Loaded
   /\ cfg.unique_field \in Elems(content.columns)
   /\ cfg.filters.type = "list" /\ cfg.filters.items # <<>>
   /\ IsComparison(cfg.filters.items[1])
   /\ cfg.filters.items[1].field \in Elems(content.columns)
   /\ ~(Len(cfg.filters.items[1].vals) = 1 /\ IsFloat(cfg.filters.items[1].vals[1])))
    => pc = "exit" /\ exit_code = 3

\* C5: an input path with nothing at it and an input path that is not a regular
\* file both end the run with the input-file exit code 2, which is not the
\* processing exit code 3
C5_InputFileErrorClass ==
  (pc \in {"extracted", "exit"} /\ Configured /\ cfg.input_file # None
     /\ (~Exists(cfg.input_file) \/ ~IsFile(cfg.input_file)))
    => pc = "exit" /\ exit_code = 2 /\ exit_code # ExtractExitCode("ValueError")

\* the config key each command-line option overrides
KeyOf ==
  [input |-> "input_file", output |-> "output_file", unique_field |-> "unique_field",
   separator |-> "separator", column_name |-> "column_name",
   row_format |-> "row_format", output_format |-> "output_format",
   delimiter |-> "delimiter", filters |-> "filters", drop_na |-> "drop_na",
   dry_run |-> "dry_run"]

\* C6: with --config, every key of the config file whose option is not on the
\* command line keeps the value of the config file in cfg
C6_ConfigKeptUnlessOverridden ==
  (pc = "configured" /\ WithConfig)
    => \A o \in DOMAIN KeyOf :
         (o \notin DOMAIN argv /\ KeyOf[o] \in DOMAIN config_yaml)
           => cfg[KeyOf[o]] = config_yaml[KeyOf[o]]

StrictlySorted(q) == \A i \in 1..(Len(q) - 1) : StrLess(q[i], q[i + 1])

\* C7: in SINGLE row format the extracted sequence is strictly ascending in
\* lexicographic order, so it holds no value twice, and its values are the
\* trimmed string forms of the non-null cells of the rows kept
C7_SingleSortedDistinct ==
  (pc = "extracted" /\ cfg.row_format = single)
    => /\ StrictlySorted(series)
       /\ \A r \in Elems(Filtered(cfg, content).val.rows) :
            r[cfg.unique_field] # None => Strip(r[cfg.unique_field]) \in Elems(series)
       /\ \A v \in Elems(series) : v = Strip(v)

\* the run extracted from two kept cells that differ only in surrounding blanks
C7_Witness ==
  /\ pc = "extracted" /\ cfg.row_format = single /\ Len(series) = 1
  /\ \E r1, r2 \in Elems(Filtered(cfg, content).val.rows) :
       /\ r1[id] # None /\ r2[id] # None
       /\ r1[id] # r2[id] /\ Strip(r1[id]) = Strip(r2[id])

\* C8: in both row formats the extracted sequence holds no null and no string
\* that is empty after trimming
C8_NoNullNoEmpty ==
  pc = "extracted" => \A v \in Elems(series) : v # None /\ Strip(v) # <<>>

\* the tokens of the unique field over a frame: every cell split on the
\* separator, every piece trimmed, the empty ones left out
Tokens(rows, field, sep) ==
  UNION {{Strip(t) : t \in Elems(Split(r[field], sep))} :
           r \in {x \in Elems(rows) : x[field] # None}} \ {<<>>}

\* C9: in MULTI row format the extracted sequence is strictly ascending and
\* holds exactly the trimmed non-empty tokens of the cells of the rows kept;
\* cells "a,b" and "b,c" with separator "," give [a, b, c]
C9_MultiExactTokens ==
  (pc = "extracted" /\ cfg.row_format = multi)
    => /\ StrictlySorted(series)
       /\ Elems(series) = Tokens(Filtered(cfg, content).val.rows, cfg.unique_field,
                                 cfg.separator)
       /\ (/\ Column(content, id) = << <<"a", ",", "b">>, <<"b", ",", "c">> >>
           /\ cfg.filters.items = <<>> /\ cfg.separator = <<",">>)
            => series = << <<"a">>, <<"b">>, <<"c">> >>

\* the run of example scenario 2 has extracted
C9_Witness ==
  /\ pc = "extracted" /\ cfg.row_format = multi
  /\ Column(content, id) = << <<"a", ",", "b">>, <<"b", ",", "c">> >>
  /\ cfg.filters.items = <<>> /\ cfg.separator = <<",">>
  /\ series = << <<"a">>, <<"b">>, <<"c">> >>

\* a is b with some elements left out
RECURSIVE IsSubseq(_, _)
IsSubseq(a, b) ==
  IF a = <<>> THEN TRUE
  ELSE IF b = <<>> THEN FALSE
  ELSE IF Head(a) = Head(b) THEN IsSubseq(Tail(a), Tail(b))
  ELSE IsSubseq(a, Tail(b))

\* cfg with its first clause only
FirstClauseOnly == [cfg EXCEPT !.filters = PyList(<<cfg.filters.items[1]>>)]

\* C10: when clauses [c1, c2] both apply without error, the rows they keep are
\* among the rows [c1] keeps, and the values extracted under [c1, c2] are among
\* the values extracted under [c1]
C10_Conjunctive ==
  (pc = "extracted" /\ Len(cfg.filters.items) = 2)
    => /\ Filtered(FirstClauseOnly, content).exc = ""
       /\ IsSubseq(Filtered(cfg, content).val.rows,
                   Filtered(FirstClauseOnly, content).val.rows)
       /\ extract_unique_values(FirstClauseOnly, content).exc = ""
       /\ Elems(series) \subseteq
            Elems(extract_unique_values(FirstClauseOnly, content).val)

\* two clauses applied, the second removing rows and values the first keeps
C10_Witness ==
  /\ pc = "extracted" /\ Len(cfg.filters.items) = 2
  /\ Len(Filtered(cfg, content).val.rows)
       < Len(Filtered(FirstClauseOnly, content).val.rows)
  /\ series # <<>>
  /\ Elems(series) # Elems(extract_unique_values(FirstClauseOnly, content).val)

(* ---------------- the filter parser on its own ---------------- *)
\* the characters of generated filter expressions
ExprChars == {"a", " ", ",", "=", ">", "<", "!", "~"}

\* all strings over S of length at most n
RECURSIVE StringsUpTo(_, _)
StringsUpTo(S, n) ==
  IF n = 0 THEN {<<>>}
  ELSE LET shorter == StringsUpTo(S, n - 1)
       IN shorter \cup {Append(q, x) : q \in shorter, x \in S}

\* the --filters lists: every short expression alone, and lists of some
\* expressions that parse and some that do not
FilterLists ==
  {<<e>> : e \in StringsUpTo(ExprChars, MaxExprLen)}
    \cup SeqsUpTo({ status \o <<"=">> \o active, <<"a", ">", "=">>,
                    <<"a", "=", " ", ",", " ">>, <<"a", "b">>,
                    <<" ", "a", " ", "<", "=", " ", "1", ",", "2", " ">> },
                  MaxFilters)

InitParse ==
  /\ argv \in {("input" :> DataCsv) @@ ("output" :> OutPath) @@ ("unique_field" :> id)
                 @@ Opt(c, "config", ConfigPath) @@ Opt(f # <<>>, "filters", f) :
                 c \in BOOLEAN, f \in FilterLists}
  /\ config_yaml = (IF WithConfig THEN YamlBase ELSE NoYaml)
  /\ content = Frame("Int64", Scenario1)
  /\ out_file = NoFile
  /\ pc = "start"
  /\ cfg = NoCfg
  /\ series = <<>>
  /\ exit_code = -1

NextParse == ConfigFromYaml \/ ConfigFromCli

SpecParse == InitParse /\ [][NextParse]_vars

\* the list FilterParser.parse returned to main: with --config it is stored in
\* cfg.filters, without it the positional call stores it in cfg.delimiter_regex
ParsedClauses ==
  IF WithConfig THEN cfg.filters.items ELSE cfg.delimiter_regex

\* the operator tokens that match at position i + 1 of s
TokensAt(s, i) == {k \in 1..Len(OPS) : StartsWith(Drop(s, i), OPS[k])}

\* the longest operator token at position i + 1 of s
LongestAt(s, i) ==
  OPS[CHOOSE k \in TokensAt(s, i) :
        \A j \in TokensAt(s, i) : Len(OPS[j]) <= Len(OPS[k])]

\* the lengths of the non-empty fields of s that an operator token follows
FieldEnds(s) == {i \in 1..Len(s) : TokensAt(s, i) # {}}

\* by the grammar <field><operator><values>: the length of the field of s,
\* which ends at the first operator
FieldLen(s) == CHOOSE i \in FieldEnds(s) : \A j \in FieldEnds(s) : i <= j

\* by the grammar: the values of s, the text after its longest operator split
\* on commas, trimmed, the empty ones left out
GrammarValues(s) ==
  StripNonEmpty(Split(Drop(s, FieldLen(s) + Len(LongestAt(s, FieldLen(s)))),
                      <<",">>))

\* an expression with no recognizable operator or with an empty value list
Skipped(e) == FieldEnds(Strip(e)) = {} \/ GrammarValues(Strip(e)) = <<>>

NotSkipped(e) == ~Skipped(e)

WellFormed(c) ==
  /\ c.field = Strip(c.field)
  /\ c.vals # <<>>
  /\ \A i \in 1..Len(c.vals) : c.vals[i] # <<>> /\ c.vals[i] = Strip(c.vals[i])

\* C11: parse returns a list for every list of expressions; an expression with
\* no recognizable operator or with an empty value list (such as "a>=")
\* gives no clause, every other expression gives one clause, in input order,
\* with its trimmed field and a non-empty list of trimmed non-empty values
C11_ParseSkipsOrYieldsOne ==
  pc = "configured"
    => LET kept == SelectSeq(parse_args(argv).filters, NotSkipped)
       IN /\ Len(ParsedClauses) = Len(kept)
          /\ \A i \in 1..Len(kept) :
               /\ WellFormed(ParsedClauses[i])
               /\ ParsedClauses[i].field
                    = Strip(Take(Strip(kept[i]), FieldLen(Strip(kept[i]))))

\* C12: the operator of the clause of an accepted expression is the longest
\* token that matches where the operator starts; >= and <= are never returned
\* as > and < with the "=" pushed into the values
C12_LongestOperator ==
  (pc = "configured" /\ Len(parse_args(argv).filters) = 1 /\ ParsedClauses # <<>>)
    => LET s == Strip(parse_args(argv).filters[1])
           start == Len(ReMatch(s)[1][1])
       IN /\ ParsedClauses[1].op = LongestAt(s, start)
          /\ ~(/\ ParsedClauses[1].op \in {<<">">>, <<"<">>}
               /\ StartsWith(Drop(s, start + 1), <<"=">>)
               /\ ParsedClauses[1].vals[1] = <<"=">>
               /\ Len(s) = start + 2)

(* ---------------- extraction and save_output on their own ---------------- *)
xml == <<"x", "m", "l">>

col == <<"c", "o", "l">>

\* configurations built with ExtractorConfig(...), as a caller of save_output
\* can: any output_format, column_name unset, equal to "meta" or another name
SaveConfigs ==
  {ExtractorConfig(("filters" :> PyList(f)) @@ ("row_format" :> rf)
                     @@ ("output_format" :> fmt) @@ ("dry_run" :> dr)
                     @@ Opt(cn # None, "column_name", cn) @@ YamlBase).val :
     f \in {<<>>, <<Clause(status, <<"=">>, <<active>>)>>},
     rf \in {single, multi}, fmt \in {csv, json, yaml, parquet, xml},
     dr \in BOOLEAN, cn \in {None, meta_key, col}}

InitSave ==
  /\ argv = NoArgv
  /\ config_yaml = NoYaml
  /\ content \in RichFrames
  /\ out_file = NoFile
  /\ pc = "configured"
  /\ cfg \in SaveConfigs
  /\ series = <<>>
  /\ exit_code = -1

NextSave == Extract \/ Save

SpecSave == InitSave /\ [][NextSave]_vars

\* main has left save_output
Saved == pc = "exit" /\ exit_code \in {0, 4}

\* C13: for an output_format outside {csv, json, yaml, parquet} save_output
\* fails (main exits with the output error code 4), dry_run set or not, and no
\* output file is written
C13_UnsupportedFormatFails ==
  (Saved /\ cfg.output_format \notin {csv, json, yaml, parquet})
    => exit_code = 4 /\ out_file = NoFile

\* C14: for every column_name the frame written carries the metadata and the
\* values: it has the columns meta and column_name; SINGLE has one row with
\* the metadata and the values joined with the separator; MULTI has a first
\* row with the metadata and then one row per value; the count of the
\* metadata is the number of values
C14_FrameCarriesMetaAndValues ==
  (Saved /\ exit_code = 0 /\ ~cfg.dry_run)
    => LET f == out_file.frame
       IN /\ f.columns = <<meta_key, cfg.column_name>>
          /\ f.rows[1][meta_key] = [str |-> Meta(series, cfg)]
          /\ f.rows[1][meta_key].str.count = Len(series)
          /\ cfg.row_format = single
               => /\ Len(f.rows) = 1
                  /\ f.rows[1][cfg.column_name] = Join(series, cfg.separator)
          /\ cfg.row_format = multi
               => /\ Len(f.rows) = Len(series) + 1
                  /\ \A i \in 1..Len(series) :
                       f.rows[i + 1][cfg.column_name] = series[i]

(* ---------------- relations between extractions ---------------- *)
\* cfg with the drop_na option switched
OtherDropNa == [cfg EXCEPT !.drop_na = ~cfg.drop_na]

\* C15: extraction with drop_na set and extraction with drop_na unset give the
\* same result, and the sequence the program extracted is the one it would
\* have extracted with the option switched
C15_DropNaNeverChangesValues ==
  (pc # "configured" /\ Loaded)
    => /\ extract_unique_values(OtherDropNa, content)
            = extract_unique_values(cfg, content)
       /\ pc = "extracted"
            => extract_unique_values(OtherDropNa, content) = Ok(series)

\* drop_na is set and removes a row with a null target cell that the clauses
\* let through, and values are extracted from the rows left
C15_Witness ==
  /\ pc = "extracted" /\ cfg.drop_na /\ series # <<>>
  /\ Len(Filtered(cfg, content).val.rows)
       < Len(Filtered(OtherDropNa, content).val.rows)

\* the rows of df whose cell of field f is not null
NonNullRows(df, f) ==
  LET Keep(r) == r[f] # None
  IN SelectSeq(df.rows, Keep)

\* the rows f=V keeps and the rows f!=V keeps split the rows with a non-null
\* f cell between them
EqNeSplit(df, f, V) ==
  LET eq == apply(df, f, <<"=">>, V)
      ne == apply(df, f, <<"!", "=">>, V)
  IN /\ eq.exc = "" /\ ne.exc = ""
     /\ Elems(eq.val.rows) \cap Elems(ne.val.rows) = {}
     /\ Elems(eq.val.rows) \cup Elems(ne.val.rows) = Elems(NonNullRows(df, f))
     /\ IsSubseq(eq.val.rows, NonNullRows(df, f))
     /\ IsSubseq(ne.val.rows, NonNullRows(df, f))
     /\ Len(eq.val.rows) + Len(ne.val.rows) = Len(NonNullRows(df, f))
     /\ \A i \in 1..Len(df.rows) :
          df.rows[i][f] = None
            => df.rows[i] \notin Elems(eq.val.rows) \cup Elems(ne.val.rows)

\* C16: for every = or != clause the extraction met, on a field of the
\* dataset, the rows f=V keeps and the rows f!=V keeps are disjoint, together
\* they are the rows whose f cell is not null, and a row with a null f cell is
\* kept by neither
C16_EqNePartitionNonNull ==
  (pc # "configured" /\ Loaded)
    => \A i \in 1..Len(cfg.filters.items) :
         LET c == cfg.filters.items[i]
         IN (c.op \in { <<"=">>, <<"!", "=">> } /\ InVals(c.field, content.columns))
              => EqNeSplit(content, c.field, c.vals)

\* a single != clause on a field with a null cell has run: it kept a row and
\* dropped the null one, which = drops too
C16_Witness ==
  /\ pc = "extracted" /\ ~cfg.drop_na
  /\ Len(cfg.filters.items) = 1 /\ cfg.filters.items[1].op = <<"!", "=">>
  /\ Len(NonNullRows(content, cfg.filters.items[1].field)) < Len(content.rows)
  /\ Filtered(cfg, content).val.rows
       = NonNullRows(content, cfg.filters.items[1].field)
  /\ Filtered(cfg, content).val.rows # <<>>
  /\ apply(content, cfg.filters.items[1].field, <<"=">>,
           cfg.filters.items[1].vals).val.rows = <<>>

====
